---- MODULE Spec2Model ----
(***************************************************************************)
(* A model of the daily puzzle resolution pipeline of purplehunter:        *)
(* src/app/api/puzzle/route.ts (calculatePuzzleNumber, fetchFromNYT,       *)
(* fetchFromGitHub, GET), and of its caller, the component                 *)
(* ConnectionsHelper of src/components/add-to-home-screen.tsx.             *)
(*                                                                         *)
(* Conventions.                                                            *)
(*  - A JavaScript string is a sequence of one-character strings, so that  *)
(*    toUpperCase and truthiness ("" is falsy) are computed, not assumed.  *)
(*  - A calendar-date string "YYYY-MM-DD" is the triple <<y, m, d>>; any   *)
(*    other tuple is a string that Date cannot parse.                      *)
(*  - An optional field of a JSON object is a field that the record may    *)
(*    lack (tested with DOMAIN).                                           *)
(*  - Date.getTime() is counted in seconds, not milliseconds: every time   *)
(*    the program handles is a whole number of seconds, and milliseconds   *)
(*    since 1970 do not fit TLC's 32-bit integers. The divisor of          *)
(*    calculatePuzzleNumber is scaled alike.                               *)
(***************************************************************************)
EXTENDS Integers, Sequences, FiniteSets, TLC

VARIABLES
    pc,          \* position of the GET handler between its awaits
    today,       \* GET's local `today`
    nytResp,     \* what fetch(getNYTApiUrl(date)) gave this resolution
    ghResp,      \* what fetch(GITHUB_ARCHIVE) gave this resolution
    puzzleData,  \* GET's local `puzzleData`
    response,    \* the NextResponse GET returned
    calls,       \* the adapter invocations of this resolution, in order
    earlier,     \* the response of the invocation that had returned when this one began
    other,       \* a second invocation of GET, suspended at an await
    words,         \* ConnectionsHelper: the sixteen tiles
    wordColors,    \* pairs <<word, colour>>, one per coloured word
    selectedColor,
    isEditing,
    editText,
    isLoading,
    puzzleDate,
    puzzleId,
    fetchError,
    mounted,       \* the mount effect has run
    fetchPc,       \* where fetchTodaysPuzzle is: "idle", "fetch" or "json"
    apiResponse,   \* the response the last fetchTodaysPuzzle has received
    shuffles,      \* how many times shuffleWords has run
    d1, d2,      \* two arguments of calculatePuzzleNumber (specification SpecDate)
    n1, n2,      \* its results for d1 and d2
    k1, k2       \* the number of days from the first date considered to d1, d2

vars == <<pc, today, nytResp, ghResp, puzzleData, response, calls, earlier, other,
          d1, d2, n1, n2, k1, k2,
          words, wordColors, selectedColor, isEditing, editText, isLoading,
          puzzleDate, puzzleId, fetchError, mounted, fetchPc, apiResponse, shuffles>>

getVars == <<pc, today, nytResp, ghResp, puzzleData, response, calls, earlier>>
dateVars == <<d1, d2, n1, n2, k1, k2>>

clientVars == <<words, wordColors, selectedColor, isEditing, editText, isLoading,
                puzzleDate, puzzleId, fetchError, mounted, fetchPc, apiResponse, shuffles>>

\* what a step of one invocation of GET leaves alone
outsideGET == <<other, dateVars, clientVars>>

(***************************************************************************)
(* JavaScript values                                                       *)
(***************************************************************************)

\* The number NaN (Invalid Date's getTime() and everything computed from it).
NaN == 0 - 2000000000

\* null, the adapters' failure result
Null == [null |-> TRUE]

\* no value yet (a local not yet assigned, a request not yet made)
Unset == [unset |-> TRUE]

Has(obj, f) == f \in DOMAIN obj

\* `obj.f` used as a condition: a missing field (undefined) and "" are falsy
Truthy(obj, f) == Has(obj, f) /\ obj[f] # <<>>

LowerChars == <<"a", "b", "c", "d", "e", "f", "g", "p", "w">>
UpperChars == <<"A", "B", "C", "D", "E", "F", "G", "P", "W">>

toUpperCaseChar(c) ==
    IF \E i \in 1..Len(LowerChars) : LowerChars[i] = c
    THEN UpperChars[CHOOSE i \in 1..Len(LowerChars) : LowerChars[i] = c]
    ELSE c

\* String.prototype.toUpperCase
toUpperCase(s) == [i \in 1..Len(s) |-> toUpperCaseChar(s[i])]

(***************************************************************************)
(* Dates                                                                   *)
(***************************************************************************)

SecondsPerDay == 86400

IsLeap(y) == (y % 4 = 0 /\ y % 100 # 0) \/ y % 400 = 0

DaysInMonth(y, m) ==
    IF m = 2 THEN (IF IsLeap(y) THEN 29 ELSE 28)
    ELSE IF m \in {4, 6, 9, 11} THEN 30 ELSE 31

\* The strings that Date parses as a date-only ISO form.
IsDateString(s) ==
    /\ Len(s) = 3
    /\ s[2] \in 1..12
    /\ s[1] \in 1970..2037
    /\ s[3] \in 1..DaysInMonth(s[1], s[2])

\* Days from 1970-01-01 to the civil date y-m-d (proleptic Gregorian).
DaysFromCivil(y, m, d) ==
    LET yy  == IF m <= 2 THEN y - 1 ELSE y
        era == yy \div 400
        yoe == yy - era * 400
        mp  == IF m > 2 THEN m - 3 ELSE m + 9
        doy == (153 * mp + 2) \div 5 + d - 1
        doe == yoe * 365 + yoe \div 4 - yoe \div 100 + doy
    IN  era * 146097 + doe - 719468

\* new Date(dateStr).getTime(): a date-only string is midnight UTC of that
\* day; undefined or an unparsable string gives an Invalid Date, whose time
\* is NaN.
DateGetTime(obj, f) ==
    IF Has(obj, f) /\ IsDateString(obj[f])
    THEN DaysFromCivil(obj[f][1], obj[f][2], obj[f][3]) * SecondsPerDay
    ELSE NaN

launchDate == <<2023, 6, 12>>

calculatePuzzleNumber_OffByOne(obj, f) ==
    LET puzzleTime == DateGetTime(obj, f)
        launchTime == DateGetTime([d |-> launchDate], "d")
    IN  IF puzzleTime = NaN THEN NaN
        ELSE (puzzleTime - launchTime) \div SecondsPerDay

\* calculatePuzzleNumber(obj.f)
calculatePuzzleNumber(obj, f) ==
    LET puzzleTime == DateGetTime(obj, f)
        launchTime == DateGetTime([d |-> launchDate], "d")
        diffTime   == IF puzzleTime = NaN THEN NaN ELSE puzzleTime - launchTime
        diffDays   == IF diffTime = NaN THEN NaN ELSE diffTime \div SecondsPerDay
    IN  IF diffDays = NaN THEN NaN ELSE diffDays + 1

(***************************************************************************)
(* Array helpers                                                           *)
(***************************************************************************)

\* Array.prototype.sort is stable; with a consistent comparator its result is
\* the one stable insertion gives. Sorted here are pairs <<key, element>>,
\* ascending by key: x goes after every element whose key is not greater.
RECURSIVE InsertStable(_, _)
InsertStable(s, x) ==
    IF s = <<>> THEN <<x>>
    ELSE IF x[1] - s[Len(s)][1] < 0
         THEN Append(InsertStable(SubSeq(s, 1, Len(s) - 1), x), s[Len(s)])
         ELSE Append(s, x)

RECURSIVE SortStable(_)
SortStable(s) ==
    IF s = <<>> THEN <<>>
    ELSE InsertStable(SortStable(SubSeq(s, 1, Len(s) - 1)), s[Len(s)])

\* the elements of s in ascending order of key[i], ties in their order in s
SortByKey(s, key) ==
    LET sorted == SortStable([i \in 1..Len(s) |-> <<key[i], s[i]>>])
    IN  [i \in 1..Len(s) |-> sorted[i][2]]

(***************************************************************************)
(* Primary source: fetchFromNYT                                            *)
(***************************************************************************)

\* for (const category of data.categories) allCards.push(...category.cards)
RECURSIVE FlattenCards(_)
FlattenCards(categories) ==
    IF categories = <<>> THEN <<>>
    ELSE FlattenCards(SubSeq(categories, 1, Len(categories) - 1))
            \o categories[Len(categories)].cards

SortByPosition_Descending(allCards) ==
    SortByKey(allCards, [i \in 1..Len(allCards) |-> 0 - allCards[i].position])

\* allCards.sort((a, b) => a.position - b.position)
SortByPosition(allCards) ==
    SortByKey(allCards, [i \in 1..Len(allCards) |-> allCards[i].position])

\* allCards.some(card => card.image_url)
IsPicturePuzzle(allCards) ==
    \E i \in 1..Len(allCards) : Truthy(allCards[i], "image_url")

CardWord_ContentFirst(card, isPicturePuzzle) ==
    IF Truthy(card, "content") THEN toUpperCase(card.content)
    ELSE IF Truthy(card, "image_alt_text") THEN toUpperCase(card.image_alt_text)
    ELSE toUpperCase(<<>>)

CardWord_PerCardPicture(card, isPicturePuzzle) ==
    IF Truthy(card, "image_url") /\ Truthy(card, "image_alt_text")
    THEN toUpperCase(card.image_alt_text)
    ELSE IF Truthy(card, "content") THEN toUpperCase(card.content)
    ELSE IF Truthy(card, "image_alt_text") THEN toUpperCase(card.image_alt_text)
    ELSE toUpperCase(<<>>)

\* the callback of allCards.map at lines 93-98
CardWord(card, isPicturePuzzle) ==
    IF isPicturePuzzle /\ Truthy(card, "image_alt_text")
    THEN toUpperCase(card.image_alt_text)
    ELSE IF Truthy(card, "content") THEN toUpperCase(card.content)
    ELSE IF Truthy(card, "image_alt_text") THEN toUpperCase(card.image_alt_text)
    ELSE toUpperCase(<<>>)

\* the loop at lines 104-108: a later card overwrites an earlier one's key
RECURSIVE BuildImageMap(_)
BuildImageMap(allCards) ==
    IF allCards = <<>> THEN <<>>
    ELSE LET rest == BuildImageMap(SubSeq(allCards, 1, Len(allCards) - 1))
             card == allCards[Len(allCards)]
         IN  IF Truthy(card, "image_url") /\ Truthy(card, "image_alt_text")
             THEN LET key == toUpperCase(card.image_alt_text)
                  IN  [k \in DOMAIN rest \cup {key} |->
                          IF k = key THEN card.image_url ELSE rest[k]]
             ELSE rest

\* What makes the parsing of a decoded body throw a TypeError.
ParseThrowsNYT(data) ==
    \/ ~Has(data, "categories")
    \/ \E i \in 1..Len(data.categories) : ~Has(data.categories[i], "cards")

NYTPuzzle_UpstreamId(data, wordList, isPicturePuzzle, allCards) ==
    LET base == [id |-> data.id, words |-> wordList]
        withDate == IF Has(data, "print_date")
                    THEN [f \in DOMAIN base \cup {"date"} |->
                            IF f = "date" THEN data.print_date ELSE base[f]]
                    ELSE base
    IN  IF isPicturePuzzle
        THEN [f \in DOMAIN withDate \cup {"imageMap"} |->
                IF f = "imageMap" THEN BuildImageMap(allCards) ELSE withDate[f]]
        ELSE withDate

\* The object literal returned at lines 111-116. JSON drops a field whose
\* value is undefined, so an undefined date or imageMap is a missing field.
NYTPuzzle(data, wordList, isPicturePuzzle, allCards) ==
    LET base == [id |-> calculatePuzzleNumber(data, "print_date"), words |-> wordList]
        withDate == IF Has(data, "print_date")
                    THEN [f \in DOMAIN base \cup {"date"} |->
                            IF f = "date" THEN data.print_date ELSE base[f]]
                    ELSE base
    IN  IF isPicturePuzzle
        THEN [f \in DOMAIN withDate \cup {"imageMap"} |->
                IF f = "imageMap" THEN BuildImageMap(allCards) ELSE withDate[f]]
        ELSE withDate

\* fetchFromNYT(date), given what the request for that date came back with
fetchFromNYT(date, resp) ==
    IF resp.kind # "json" THEN Null
    ELSE IF ParseThrowsNYT(resp.data) THEN Null
    ELSE LET allCards == SortByPosition(FlattenCards(resp.data.categories))
             isPicturePuzzle == IsPicturePuzzle(allCards)
             wordList == [i \in 1..Len(allCards) |-> CardWord(allCards[i], isPicturePuzzle)]
         IN  NYTPuzzle(resp.data, wordList, isPicturePuzzle, allCards)

(***************************************************************************)
(* Fallback source: fetchFromGitHub                                        *)
(***************************************************************************)

RowsPerGroup == 4

FindByDate_Last(puzzles, date) ==
    LET hits == {i \in 1..Len(puzzles) : Has(puzzles[i], "date") /\ puzzles[i].date = date}
    IN  IF hits = {} THEN 0 ELSE CHOOSE i \in hits : \A j \in hits : j <= i

\* puzzles.find(p => p.date === today): the index of the first match, 0 if none
FindByDate(puzzles, date) ==
    LET hits == {i \in 1..Len(puzzles) : Has(puzzles[i], "date") /\ puzzles[i].date = date}
    IN  IF hits = {} THEN 0 ELSE CHOOSE i \in hits : \A j \in hits : i <= j

SortByDateDescending_Ascending(puzzles) ==
    SortByKey(puzzles, [i \in 1..Len(puzzles) |-> DateGetTime(puzzles[i], "date")])

\* [...puzzles].sort((a, b) => new Date(b.date).getTime() - new Date(a.date).getTime())
\* The comparator is consistent when every date parses; an archive with a date
\* that does not parse is modelled only with a single entry, where the
\* comparator is never called.
SortByDateDescending(puzzles) ==
    SortByKey(puzzles, [i \in 1..Len(puzzles) |-> 0 - DateGetTime(puzzles[i], "date")])

SelectPuzzle_NoLatest(puzzles, date) ==
    IF FindByDate(puzzles, date) # 0 THEN puzzles[FindByDate(puzzles, date)] ELSE Null

\* lines 135-140: the entry for `today`, else the first of the entries sorted
\* by date, latest first; Null when there is none (puzzle stays undefined)
SelectPuzzle(puzzles, date) ==
    IF FindByDate(puzzles, date) # 0 THEN puzzles[FindByDate(puzzles, date)]
    ELSE IF Len(puzzles) > 0 THEN SortByDateDescending(puzzles)[1]
    ELSE Null

\* [...puzzle.answers].sort((a, b) => a.level - b.level)
SortByLevel(answers) ==
    SortByKey(answers, [i \in 1..Len(answers) |-> answers[i].level])

\* answer.members[i] used as a condition (i counted from 0)
MemberTruthy(answer, i) ==
    i + 1 <= Len(answer.members) /\ answer.members[i + 1] # <<>>

\* the inner loop at lines 151-155, for one i, over the first n sorted answers
RECURSIVE InterleaveRow(_, _, _)
InterleaveRow(sortedAnswers, i, n) ==
    IF n = 0 THEN <<>>
    ELSE LET before == InterleaveRow(sortedAnswers, i, n - 1)
         IN  IF MemberTruthy(sortedAnswers[n], i)
             THEN Append(before, toUpperCase(sortedAnswers[n].members[i + 1]))
             ELSE before

Interleave_GroupMajor(sortedAnswers, rows) ==
    LET flat[n \in 0..Len(sortedAnswers)] ==
            IF n = 0 THEN <<>>
            ELSE flat[n - 1] \o
                 [r \in 1..Len(sortedAnswers[n].members) |->
                     toUpperCase(sortedAnswers[n].members[r])]
    IN  flat[Len(sortedAnswers)]

\* the outer loop at lines 150-156, for i < rows
RECURSIVE Interleave(_, _)
Interleave(sortedAnswers, rows) ==
    IF rows = 0 THEN <<>>
    ELSE Interleave(sortedAnswers, rows - 1)
            \o InterleaveRow(sortedAnswers, rows - 1, Len(sortedAnswers))

\* What makes the parsing of the selected entry throw a TypeError.
ParseThrowsGitHub(puzzle) ==
    \/ ~Has(puzzle, "answers")
    \/ \E i \in 1..Len(puzzle.answers) : ~Has(puzzle.answers[i], "members")

\* The object literal returned at lines 158-162 (an undefined date is dropped
\* by JSON).
GitHubPuzzle(puzzle, wordList) ==
    IF Has(puzzle, "date")
    THEN [id |-> calculatePuzzleNumber(puzzle, "date"), date |-> puzzle.date, words |-> wordList]
    ELSE [id |-> calculatePuzzleNumber(puzzle, "date"), words |-> wordList]

\* fetchFromGitHub(today), given what the request for the archive came back with
fetchFromGitHub(date, resp) ==
    IF resp.kind # "json" THEN Null
    ELSE LET puzzle == SelectPuzzle(resp.data, date)
         IN  IF puzzle = Null THEN Null
             ELSE IF ParseThrowsGitHub(puzzle) THEN Null
             ELSE GitHubPuzzle(puzzle, Interleave(SortByLevel(puzzle.answers), RowsPerGroup))

(***************************************************************************)
(* Upstream responses                                                      *)
(***************************************************************************)

\* the size of the grid: the number of cards of a well-formed document
GridSize == 16

\* documents carry up to GridSize + MaxExtraCards cards
MaxExtraCards == 1

\* archive groups carry up to RowsPerGroup + MaxExtraMembers members
MaxExtraMembers == 1

Digits == <<"0", "1", "2", "3", "4", "5", "6", "7", "8", "9">>

\* two characters that name the number p
TagOf(p) == <<Digits[((p \div 10) % 10) + 1], Digits[(p % 10) + 1]>>

\* what getTodayET() can return
Todays == {<<2023, 6, 20>>, <<2023, 6, 22>>, <<2024, 1, 2>>}

\* print_date of a document; <<>> stands for a document without the field
PrintDateChoices ==
    {<<2023, 6, 12>>, <<2023, 6, 20>>, <<2024, 1, 2>>, <<2023, 6, 11>>, <<>>}

CardStyles ==
    {"text", "picture", "captioned", "mixed", "altonly", "noalt", "emptyurl", "samealt"}

TextCard(p) == [position |-> p, content |-> <<"w">> \o TagOf(p)]

PictureCard(p, q) ==
    [position |-> p, image_url |-> <<"u">> \o TagOf(p), image_alt_text |-> <<"p">> \o TagOf(q)]

MixedCard(p) ==
    IF p = 0 THEN PictureCard(p, p)
    ELSE IF p % 2 = 1
         THEN [position |-> p, content |-> <<"w">> \o TagOf(p),
               image_alt_text |-> <<"a">> \o TagOf(p)]
         ELSE TextCard(p)

AltOnlyCard(p) ==
    IF p % 2 = 1 THEN [position |-> p, image_alt_text |-> <<"a">> \o TagOf(p)]
    ELSE [position |-> p]

NoAltCard(p) ==
    IF p = 0 THEN [position |-> p, image_url |-> <<"u">> \o TagOf(p)] ELSE TextCard(p)

EmptyUrlCard(p) ==
    IF p = 0 THEN [position |-> p, content |-> <<"w">> \o TagOf(p),
                   image_url |-> <<>>, image_alt_text |-> <<"a">> \o TagOf(p)]
    ELSE TextCard(p)

CaptionedCard(p) ==
    [position |-> p, content |-> <<"c">> \o TagOf(p),
     image_url |-> <<"u">> \o TagOf(p), image_alt_text |-> <<"p">> \o TagOf(p)]

\* the card at grid position p of a document of the given style
CardOf(p, style) ==
    CASE style = "text" -> TextCard(p)
      [] style = "picture" -> PictureCard(p, p)
      [] style = "captioned" -> CaptionedCard(p)
      [] style = "mixed" -> MixedCard(p)
      [] style = "altonly" -> AltOnlyCard(p)
      [] style = "noalt" -> NoAltCard(p)
      [] style = "emptyurl" -> EmptyUrlCard(p)
      [] style = "samealt" -> PictureCard(p, p % 2)

CardCounts == {0} \cup ((GridSize - 1)..(GridSize + MaxExtraCards))

\* <<a, b>>: the i-th card of the document (from 0) has position (a*i + b) % n
CardOrders == {<<1, 0>>, <<15, 0>>, <<3, 5>>, <<2, 0>>}

Groupings == {"quarters", "single", "ragged"}

\* where the categories of a document of n cards begin and end
Cuts(n, grouping) ==
    CASE grouping = "quarters" -> <<0, n \div 4, 2 * (n \div 4), 3 * (n \div 4), n>>
      [] grouping = "single" -> <<0, n>>
      [] grouping = "ragged" -> <<0, IF n > 0 THEN 1 ELSE 0, IF n > 0 THEN 1 ELSE 0, n>>

NYTDocument(n, order, grouping, style, printDate) ==
    LET flat == [i \in 1..n |-> CardOf((order[1] * (i - 1) + order[2]) % n, style)]
        cuts == Cuts(n, grouping)
        categories == [j \in 1..(Len(cuts) - 1) |->
                          [title |-> <<"t">>, cards |-> SubSeq(flat, cuts[j] + 1, cuts[j + 1])]]
    IN  IF printDate = <<>>
        THEN [id |-> 1, categories |-> categories]
        ELSE [id |-> 1, print_date |-> printDate, categories |-> categories]

NYTDocuments ==
    {NYTDocument(n, order, grouping, style, printDate) :
        n \in CardCounts, order \in CardOrders, grouping \in Groupings,
        style \in CardStyles, printDate \in PrintDateChoices}

\* decoded bodies whose parsing throws
NYTMisshapen ==
    { [id |-> 1, print_date |-> <<2023, 6, 20>>],
      [id |-> 1, print_date |-> <<2023, 6, 20>>,
       categories |-> <<[title |-> <<"t">>, cards |-> <<TextCard(0)>>], [title |-> <<"t">>]>>] }

\* networkError: fetch rejects; httpError: response.ok is false;
\* invalidJSON: response.json() rejects; json: the decoded body is `data`
NYTResponses ==
    {[kind |-> k] : k \in {"networkError", "httpError", "invalidJSON"}}
        \cup {[kind |-> "json", data |-> doc] : doc \in NYTDocuments \cup NYTMisshapen}

ArchiveDateLists ==
    { <<>>,
      << <<2023, 6, 12>>, <<2023, 6, 20>>, <<2023, 6, 25>> >>,
      << <<2023, 6, 25>>, <<2023, 6, 12>>, <<2023, 6, 20>> >>,
      << <<2023, 12, 31>>, <<2024, 1, 5>>, <<2023, 6, 30>> >>,
      << <<2023, 6, 20>>, <<2023, 6, 25>>, <<2023, 6, 20>>, <<2023, 6, 25>> >>,
      << <<2023, 6, 11>> >>,
      << <<>> >> }

LevelOrders == { <<1, 2, 3, 4>>, <<4, 3, 2, 1>>, <<2, 4, 1, 3>>, <<1, 1, 0, 0>> }

AnswerShapes == {"full", "short", "blank", "long", "three", "nomembers", "noanswers"}

EntryChars == <<"e", "f", "g", "p">>
GroupChars == <<"a", "b", "c", "d">>

\* member r (from 1) of the g-th listed group of the e-th entry
MemberOf(e, g, r) == <<EntryChars[e], GroupChars[g], Digits[r + 1]>>

AnswerOf(e, g, level, shape) ==
    LET count == CASE shape = "short" /\ g = 2 -> RowsPerGroup - 1
                   [] shape = "long" /\ g = 1 -> RowsPerGroup + MaxExtraMembers
                   [] OTHER -> RowsPerGroup
        members == [r \in 1..count |->
                       IF shape = "blank" /\ g = 3 /\ r = 2 THEN <<>> ELSE MemberOf(e, g, r)]
    IN  IF shape = "nomembers" /\ g = 2
        THEN [level |-> level, group |-> <<GroupChars[g]>>]
        ELSE [level |-> level, group |-> <<GroupChars[g]>>, members |-> members]

ArchiveEntry(e, date, levels, shape) ==
    LET groups == IF shape = "three" THEN 3 ELSE 4
        answers == [g \in 1..groups |-> AnswerOf(e, g, levels[g], shape)]
        fields == (IF date = <<>> THEN {"id"} ELSE {"id", "date"})
                     \cup (IF shape = "noanswers" THEN {} ELSE {"answers"})
    IN  [f \in fields |->
            CASE f = "id" -> e
              [] f = "date" -> date
              [] f = "answers" -> answers]

Archive(dates, levels, shape) ==
    [e \in 1..Len(dates) |-> ArchiveEntry(e, dates[e], levels, shape)]

Archives ==
    {Archive(dates, levels, shape) :
        dates \in ArchiveDateLists, levels \in LevelOrders, shape \in AnswerShapes}

\* jsonObject: the decoded body is an object, not an array
GitHubResponses ==
    {[kind |-> k] : k \in {"networkError", "httpError", "invalidJSON", "jsonObject"}}
        \cup {[kind |-> "json", data |-> archive] : archive \in Archives}

(***************************************************************************)
(* The route handler GET                                                   *)
(***************************************************************************)

FailurePayload_WithCause ==
    [error |-> "Failed to fetch today's puzzle",
     message |-> "Please enter words manually using the Edit button",
     cause |-> <<nytResp.kind, ghResp.kind>>]

\* the body of the response at lines 183-189
FailurePayload ==
    [error |-> "Failed to fetch today's puzzle",
     message |-> "Please enter words manually using the Edit button"]

(***************************************************************************)
(* ConnectionsHelper: the state of the component                           *)
(***************************************************************************)

\* a state that holds a value; null is Null
Some(v) == [value |-> v]

DEFAULT_WORDS ==
    << <<"Q", "U", "O", "T", "E">>, <<"P", "E", "C", "K">>,
       <<"P", "R", "I", "C", "E">>, <<"T", "O", "T", "A", "L">>,
       <<"D", "A", "M", "A", "G", "E">>, <<"T", "I", "T", "L", "E">>,
       <<"B", "I", "L", "L">>, <<"G", "R", "A", "N", "T">>,
       <<"A", "U", "T", "H", "O", "R">>, <<"W", "I", "N", "G", "S">>,
       <<"C", "O", "O", "P", "E", "R">>, <<"B", "R", "E", "A", "K">>,
       <<"W", "E", "B", "B", "I", "N", "G">>, <<"W", "R", "E", "C", "K">>,
       <<"S", "Y", "N", "O", "P", "S", "I", "S">>, <<"F", "E", "A", "T", "H", "E", "R", "S">> >>

RECURSIVE Join(_, _)
\* Array.prototype.join
Join(ws, sep) ==
    IF ws = <<>> THEN <<>>
    ELSE IF Len(ws) = 1 THEN ws[1]
    ELSE ws[1] \o sep \o Join(Tail(ws), sep)

\* lines 310-318: the useState initial values
ClientInit ==
    /\ words = DEFAULT_WORDS
    /\ wordColors = {}
    /\ selectedColor = "yellow"
    /\ isEditing = FALSE
    /\ editText = Join(DEFAULT_WORDS, <<"\n">>)
    /\ isLoading = FALSE
    /\ puzzleDate = Null
    /\ puzzleId = Null
    /\ fetchError = Null
    /\ mounted = FALSE
    /\ fetchPc = "idle"
    /\ apiResponse = Unset
    /\ shuffles = 0

(***************************************************************************)
(* ConnectionsHelper: strings and arrays                                   *)
(***************************************************************************)

\* the separators of /[\n,]+/
IsSeparator(c) == c \in {"\n", ","}

\* white space as String.prototype.trim sees it
IsWhiteSpace(c) == c \in {" ", "\t", "\r", "\n"}

\* where the runs of characters between separators begin
PieceStarts(s) == {i \in 1..Len(s) : ~IsSeparator(s[i]) /\ (i = 1 \/ IsSeparator(s[i - 1]))}

\* the run of characters that begins at i
PieceAt(s, i) ==
    LET ends == {j \in i..Len(s) : \A k \in i..j : ~IsSeparator(s[k])}
        last == CHOOSE j \in ends : \A k \in ends : k <= j
    IN  SubSeq(s, i, last)

\* editText.split(/[\n,]+/): the runs between separators, with an empty
\* string before a leading separator and after a trailing one
Split(s) ==
    IF s = <<>> THEN << <<>> >>
    ELSE LET starts == PieceStarts(s)
             nth(k) == CHOOSE i \in starts : Cardinality({j \in starts : j < i}) = k - 1
             pieces == [k \in 1..Cardinality(starts) |-> PieceAt(s, nth(k))]
             leading == IF IsSeparator(s[1]) THEN << <<>> >> ELSE <<>>
             trailing == IF IsSeparator(s[Len(s)]) THEN << <<>> >> ELSE <<>>
         IN  leading \o pieces \o trailing

\* String.prototype.trim
Trim(w) ==
    LET inked == {i \in 1..Len(w) : ~IsWhiteSpace(w[i])}
    IN  IF inked = {} THEN <<>>
        ELSE SubSeq(w, CHOOSE i \in inked : \A k \in inked : i <= k,
                       CHOOSE i \in inked : \A k \in inked : k <= i)

RECURSIVE NumberToString(_)
\* the decimal digits of a natural number, as a template literal prints it
NumberToString(n) ==
    IF n < 10 THEN <<Digits[n + 1]>>
    ELSE NumberToString(n \div 10) \o <<Digits[(n % 10) + 1]>>

\* `WORD${n}`
PlaceholderWord(n) == <<"W", "O", "R", "D">> \o NumberToString(n)

RECURSIVE PadWords(_)
\* while (newWords.length < 16) newWords.push(`WORD${newWords.length + 1}`)
PadWords(newWords) ==
    IF Len(newWords) < GridSize
    THEN PadWords(Append(newWords, PlaceholderWord(Len(newWords) + 1)))
    ELSE newWords

\* lines 385-393: the words handleSaveWords makes of the edit text
EnteredWords(text) ==
    LET pieces == Split(text)
        mapped == [i \in 1..Len(pieces) |-> toUpperCase(Trim(pieces[i]))]
        NonEmpty(w) == Len(w) > 0
        filtered == SelectSeq(mapped, NonEmpty)
        sliced == SubSeq(filtered, 1, IF Len(filtered) < GridSize THEN Len(filtered) ELSE GridSize)
    IN  PadWords(sliced)

\* [shuffled[i], shuffled[j]] = [shuffled[j], shuffled[i]], indices from 0
Swap(shuffled, i, j) ==
    [shuffled EXCEPT ![i + 1] = shuffled[j + 1], ![j + 1] = shuffled[i + 1]]

\* Math.random() returns draw / RandomResolution
RandomResolution == 2

\* Math.floor(Math.random() * (i + 1))
RandomIndex(draw, i) == (draw * (i + 1)) \div RandomResolution

RECURSIVE ShuffleFrom(_, _, _)
\* the loop of shuffleWords from index i down, draws[i] being the draw at i
ShuffleFrom(shuffled, i, draws) ==
    IF i > 0
    THEN ShuffleFrom(Swap(shuffled, i, RandomIndex(draws[i], i)), i - 1, draws)
    ELSE shuffled

\* the draws of one run of the loop: the same draw at every index, or draws
\* that change with the index
DrawSequences ==
    {[i \in 1..(GridSize - 1) |-> r] : r \in 0..(RandomResolution - 1)}
        \cup {[i \in 1..(GridSize - 1) |-> i % RandomResolution]}

(***************************************************************************)
(* ConnectionsHelper: what /api/puzzle answers and what the user types     *)
(***************************************************************************)

MaxExtraWords == 1
MaxShuffles == 1
MaxColored == 1

\* n words, in lower or upper case
WordsNamed(n, lower) == [i \in 1..n |-> <<IF lower THEN "w" ELSE "W">> \o TagOf(i)]

\* a 200 body of GET with n words; without a day the route sends no date and
\* the id NaN, which JSON prints as null
PuzzlePayload(n, dated) ==
    IF dated
    THEN [id |-> Some(9), date |-> Some(<<2023, 6, 20>>), words |-> [i \in 1..n |-> <<"P">> \o TagOf(i)]]
    ELSE [id |-> Null, words |-> [i \in 1..n |-> <<"Q">> \o TagOf(i)]]

PayloadLengths == {0, GridSize - 1, GridSize, GridSize + MaxExtraWords}

\* what fetch("/api/puzzle") can come back with
ApiResponses ==
    {[kind |-> "networkError"], [kind |-> "invalidJSON", ok |-> TRUE]}
        \cup {[kind |-> "json", ok |-> FALSE, data |-> FailurePayload]}
        \cup {[kind |-> "json", ok |-> TRUE, data |-> FailurePayload]}
        \cup {[kind |-> "json", ok |-> TRUE, data |-> PuzzlePayload(n, TRUE)] : n \in PayloadLengths}
        \cup {[kind |-> "json", ok |-> TRUE, data |-> PuzzlePayload(GridSize, FALSE)]}

\* what the user can leave in the text area
EditTexts ==
    { <<>>,
      <<",", "\t", ",">> \o Join(WordsNamed(3, TRUE), <<" ", ",", "\r", "\n", "\n", " ">>) \o <<" ">>,
      Join(WordsNamed(GridSize, TRUE), <<"\n">>),
      Join(WordsNamed(GridSize + MaxExtraWords, FALSE), <<",", "\n">>) \o <<"\n">> }

(***************************************************************************)
(* ConnectionsHelper: the handlers                                         *)
(***************************************************************************)

FetchErrorMessage == "Could not fetch today's puzzle. Use Edit to enter words manually."

\* the state fetchTodaysPuzzle never writes
besideFetch == <<selectedColor, isEditing, mounted, shuffles, getVars, other, dateVars>>

\* lines 324-325, up to the first await
FetchBegins ==
    /\ isLoading' = TRUE
    /\ fetchError' = Null
    /\ fetchPc' = "fetch"
    /\ apiResponse' = Unset
    /\ UNCHANGED <<words, wordColors, puzzleDate, puzzleId, editText>>

\* useEffect(() => { fetchTodaysPuzzle() }, [fetchTodaysPuzzle])
Mount ==
    /\ ~mounted
    /\ mounted' = TRUE
    /\ FetchBegins
    /\ UNCHANGED <<selectedColor, isEditing, shuffles, getVars, other, dateVars>>

\* the refresh button: onClick={fetchTodaysPuzzle} disabled={isLoading}
Refresh ==
    /\ mounted /\ ~isEditing
    /\ ~isLoading
    /\ FetchBegins
    /\ UNCHANGED besideFetch

\* a catch that puts the default grid back
FetchFails_ResetsGrid ==
    /\ fetchError' = Some(FetchErrorMessage)
    /\ isLoading' = FALSE
    /\ fetchPc' = "idle"
    /\ words' = DEFAULT_WORDS
    /\ wordColors' = {}
    /\ puzzleDate' = Null
    /\ puzzleId' = Null
    /\ UNCHANGED editText

\* catch (error) { setFetchError(...) } finally { setIsLoading(false) }
FetchFails ==
    /\ fetchError' = Some(FetchErrorMessage)
    /\ isLoading' = FALSE
    /\ fetchPc' = "idle"
    /\ UNCHANGED <<words, wordColors, puzzleDate, puzzleId, editText>>

\* lines 337-341, then finally
FetchSucceeds(data) ==
    /\ words' = data.words
    /\ wordColors' = {}
    /\ puzzleDate' = IF Has(data, "date") THEN data.date ELSE Unset
    /\ puzzleId' = data.id
    /\ editText' = Join(data.words, <<"\n">>)
    /\ isLoading' = FALSE
    /\ fetchPc' = "idle"
    /\ UNCHANGED fetchError

AcceptsPayload_AnyWords(data) == Has(data, "words")

\* if (data.words && data.words.length === 16)
AcceptsPayload(data) == Has(data, "words") /\ Len(data.words) = GridSize

\* await fetch("/api/puzzle") settles; if (!response.ok) throw
FetchSettles ==
    /\ fetchPc = "fetch"
    /\ \E resp \in ApiResponses :
          /\ apiResponse' = resp
          /\ IF resp.kind = "networkError" \/ ~resp.ok
             THEN FetchFails
             ELSE /\ fetchPc' = "json"
                  /\ UNCHANGED <<words, wordColors, puzzleDate, puzzleId, editText,
                                 isLoading, fetchError>>
    /\ UNCHANGED besideFetch

\* await response.json() settles; lines 336-344
JsonSettles ==
    /\ fetchPc = "json"
    /\ IF apiResponse.kind = "invalidJSON" THEN FetchFails
       ELSE IF AcceptsPayload(apiResponse.data) THEN FetchSucceeds(apiResponse.data)
       ELSE FetchFails
    /\ UNCHANGED <<apiResponse, besideFetch>>

\* the colour wordColors has for the word, if any
ColorOf(prev, word) == {p \in prev : p[1] = word}

\* lines 358-367; at most MaxColored words are clicked
handleWordClick ==
    /\ mounted /\ ~isEditing
    /\ \E i \in {1} :
          LET word == words[i]
          IN  /\ ColorOf(wordColors, word) # {} \/ Cardinality(wordColors) < MaxColored
              /\ wordColors' = IF <<word, selectedColor>> \in wordColors
                               THEN wordColors \ ColorOf(wordColors, word)
                               ELSE (wordColors \ ColorOf(wordColors, word))
                                        \cup {<<word, selectedColor>>}
    /\ UNCHANGED <<words, selectedColor, isEditing, editText, isLoading, puzzleDate, puzzleId,
                   fetchError, mounted, fetchPc, apiResponse, shuffles, getVars, other, dateVars>>

\* lines 369-378, run at most MaxShuffles times
shuffleWords ==
    /\ mounted /\ ~isEditing
    /\ shuffles < MaxShuffles
    /\ shuffles' = shuffles + 1
    /\ \E draws \in DrawSequences : words' = ShuffleFrom(words, Len(words) - 1, draws)
    /\ UNCHANGED <<wordColors, selectedColor, isEditing, editText, isLoading, puzzleDate, puzzleId,
                   fetchError, mounted, fetchPc, apiResponse, getVars, other, dateVars>>

\* lines 380-382
clearAll ==
    /\ mounted /\ ~isEditing
    /\ wordColors' = {}
    /\ UNCHANGED <<words, selectedColor, isEditing, editText, isLoading, puzzleDate, puzzleId,
                   fetchError, mounted, fetchPc, apiResponse, shuffles, getVars, other, dateVars>>

\* The edit view is returned while isEditing (line 451), and nothing in the
\* component sets isEditing to true. Its three handlers are modelled without
\* that condition, so that what they do to the state is checked.

\* the text area: onChange={(e) => setEditText(e.target.value)}
setEditText ==
    /\ mounted
    /\ \E text \in EditTexts : editText' = text
    /\ UNCHANGED <<words, wordColors, selectedColor, isEditing, isLoading, puzzleDate, puzzleId,
                   fetchError, mounted, fetchPc, apiResponse, shuffles, getVars, other, dateVars>>

\* Cancel: onClick={() => setIsEditing(false)}
CancelEdit ==
    /\ mounted
    /\ isEditing' = FALSE
    /\ UNCHANGED <<words, wordColors, selectedColor, editText, isLoading, puzzleDate, puzzleId,
                   fetchError, mounted, fetchPc, apiResponse, shuffles, getVars, other, dateVars>>

\* lines 384-400
handleSaveWords ==
    /\ mounted
    /\ words' = EnteredWords(editText)
    /\ wordColors' = {}
    /\ puzzleDate' = Null
    /\ puzzleId' = Null
    /\ isEditing' = FALSE
    /\ UNCHANGED <<selectedColor, editText, isLoading, fetchError, mounted, fetchPc,
                   apiResponse, shuffles, getVars, other, dateVars>>

\* the response of the other invocation, if it has returned
ReturnedByOther ==
    IF other # Unset /\ other.pc = "done" THEN other.response ELSE Unset

\* today = getTodayET()
GetStart ==
    /\ pc = "idle"
    /\ \E t \in Todays : today' = t
    /\ pc' = "nyt"
    /\ earlier' = ReturnedByOther
    /\ UNCHANGED <<nytResp, ghResp, puzzleData, response, calls, outsideGET>>

\* a failure kept at module level: after an invocation that failed, the
\* primary is not tried again
CallNYTFrom_CachedFailure(responses) ==
    /\ pc = "nyt"
    /\ IF earlier # Unset /\ earlier.status = 500
       THEN /\ puzzleData' = Null
            /\ pc' = "github"
            /\ UNCHANGED <<nytResp, calls>>
       ELSE \E resp \in responses :
              LET result == fetchFromNYT(today, resp)
              IN  /\ nytResp' = resp
                  /\ puzzleData' = result
                  /\ calls' = Append(calls, [adapter |-> "nyt", date |-> today, result |-> result])
                  /\ pc' = IF result = Null THEN "github" ELSE "respond"
    /\ UNCHANGED <<today, ghResp, response, earlier, outsideGET>>

\* allCards kept at module level: the words of the invocation that returned
\* before stay in the array
CallNYTFrom_SharedCards(responses) ==
    /\ pc = "nyt"
    /\ \E resp \in responses :
          LET fresh == fetchFromNYT(today, resp)
              result == IF fresh # Null /\ earlier # Unset /\ earlier.status = 200
                        THEN [fresh EXCEPT !.words = earlier.body.words \o fresh.words]
                        ELSE fresh
          IN  /\ nytResp' = resp
              /\ puzzleData' = result
              /\ calls' = Append(calls, [adapter |-> "nyt", date |-> today, result |-> result])
              /\ pc' = IF result = Null THEN "github" ELSE "respond"
    /\ UNCHANGED <<today, ghResp, response, earlier, outsideGET>>

\* let puzzleData = await fetchFromNYT(today); if (!puzzleData) ...
\* with the response of the request drawn from `responses`
CallNYTFrom(responses) ==
    /\ pc = "nyt"
    /\ \E resp \in responses :
          LET result == fetchFromNYT(today, resp)
          IN  /\ nytResp' = resp
              /\ puzzleData' = result
              /\ calls' = Append(calls, [adapter |-> "nyt", date |-> today, result |-> result])
              /\ pc' = IF result = Null THEN "github" ELSE "respond"
    /\ UNCHANGED <<today, ghResp, response, earlier, outsideGET>>

CallNYT_AlwaysFallback ==
    /\ pc = "nyt"
    /\ \E resp \in NYTResponses :
          LET result == fetchFromNYT(today, resp)
          IN  /\ nytResp' = resp
              /\ puzzleData' = result
              /\ calls' = Append(calls, [adapter |-> "nyt", date |-> today, result |-> result])
    /\ pc' = "github"
    /\ UNCHANGED <<today, ghResp, response, earlier, outsideGET>>

CallNYT_NeverFallback ==
    /\ pc = "nyt"
    /\ \E resp \in NYTResponses :
          LET result == fetchFromNYT(today, resp)
          IN  /\ nytResp' = resp
              /\ puzzleData' = result
              /\ calls' = Append(calls, [adapter |-> "nyt", date |-> today, result |-> result])
    /\ pc' = "respond"
    /\ UNCHANGED <<today, ghResp, response, earlier, outsideGET>>

\* let puzzleData = await fetchFromNYT(today); if (!puzzleData) ...
CallNYT == CallNYTFrom(NYTResponses)

\* puzzleData = await fetchFromGitHub(today)
\* with the response of the request drawn from `responses`
CallGitHubFrom(responses) ==
    /\ pc = "github"
    /\ \E resp \in responses :
          LET result == fetchFromGitHub(today, resp)
          IN  /\ ghResp' = resp
              /\ puzzleData' = result
              /\ calls' = Append(calls, [adapter |-> "github", date |-> today, result |-> result])
    /\ pc' = "respond"
    /\ UNCHANGED <<today, nytResp, response, earlier, outsideGET>>

\* puzzleData = await fetchFromGitHub(today)
CallGitHub == CallGitHubFrom(GitHubResponses)

\* lines 179-189: the response
Respond ==
    /\ pc = "respond"
    /\ response' = IF puzzleData # Null
                   THEN [status |-> 200, body |-> puzzleData]
                   ELSE [status |-> 500, body |-> FailurePayload]
    /\ pc' = "done"
    /\ UNCHANGED <<today, nytResp, ghResp, puzzleData, calls, earlier, outsideGET>>

\* the next request: a new invocation of GET, whose locals are fresh
NextRequest ==
    /\ pc = "done"
    /\ pc' = "idle"
    /\ today' = Unset
    /\ nytResp' = Unset
    /\ ghResp' = Unset
    /\ puzzleData' = Unset
    /\ response' = Unset
    /\ calls' = <<>>
    /\ earlier' = Unset
    /\ UNCHANGED outsideGET

\* no invocation of GET has begun
GetIdle ==
    /\ pc = "idle"
    /\ today = Unset
    /\ nytResp = Unset
    /\ ghResp = Unset
    /\ puzzleData = Unset
    /\ response = Unset
    /\ calls = <<>>
    /\ earlier = Unset

Init ==
    /\ GetIdle
    /\ other = Unset
    /\ ClientInit
    /\ d1 = launchDate /\ d2 = launchDate
    /\ n1 = 1 /\ n2 = 1
    /\ k1 = 0 /\ k2 = 0

Next == GetStart \/ CallNYT \/ CallGitHub \/ Respond \/ NextRequest

Spec == Init /\ [][Next]_vars

(***************************************************************************)
(* Two invocations of GET                                                  *)
(***************************************************************************)

\* The runtime runs one invocation at a time and may pass from one to the
\* other wherever the running one awaits. The variables pc .. earlier are
\* those of the running invocation; `other` holds those of the suspended one.
Suspended ==
    [pc |-> pc, today |-> today, nytResp |-> nytResp, ghResp |-> ghResp,
     puzzleData |-> puzzleData, response |-> response, calls |-> calls,
     earlier |-> earlier]

\* the suspended invocation resumes, the running one is suspended
Switch ==
    /\ other # Unset
    /\ other' = Suspended
    /\ pc' = other.pc
    /\ today' = other.today
    /\ nytResp' = other.nytResp
    /\ ghResp' = other.ghResp
    /\ puzzleData' = other.puzzleData
    /\ response' = other.response
    /\ calls' = other.calls
    /\ earlier' = other.earlier
    /\ UNCHANGED <<dateVars, clientVars>>

\* the responses the two invocations can get from the primary source
NYTSample ==
    { [kind |-> "networkError"],
      [kind |-> "json", data |-> [id |-> 1, print_date |-> <<2023, 6, 20>>]],
      [kind |-> "json", data |-> NYTDocument(GridSize, <<3, 5>>, "ragged", "text", <<2023, 6, 20>>)],
      [kind |-> "json", data |-> NYTDocument(GridSize, <<15, 0>>, "quarters", "captioned", <<2024, 1, 2>>)],
      [kind |-> "json", data |-> NYTDocument(GridSize - 1, <<1, 0>>, "single", "mixed", <<>>)] }

\* the responses the two invocations can get from the archive
GitHubSample ==
    { [kind |-> "httpError"],
      [kind |-> "json", data |-> <<>>],
      [kind |-> "json",
       data |-> Archive(<< <<2023, 6, 12>>, <<2023, 6, 20>>, <<2023, 6, 25>> >>, <<2, 4, 1, 3>>, "full")],
      [kind |-> "json",
       data |-> Archive(<< <<2023, 12, 31>>, <<2024, 1, 5>>, <<2023, 6, 30>> >>, <<1, 2, 3, 4>>, "short")] }

InitCalls ==
    /\ GetIdle
    /\ other = Suspended
    /\ ClientInit
    /\ d1 = launchDate /\ d2 = launchDate
    /\ n1 = 1 /\ n2 = 1
    /\ k1 = 0 /\ k2 = 0

NextCalls ==
    \/ GetStart
    \/ CallNYTFrom(NYTSample)
    \/ CallGitHubFrom(GitHubSample)
    \/ Respond
    \/ NextRequest
    \/ Switch

SpecCalls == InitCalls /\ [][NextCalls]_vars

(***************************************************************************)
(* ConnectionsHelper: the component in use                                 *)
(***************************************************************************)

InitClient ==
    /\ GetIdle
    /\ other = Unset
    /\ ClientInit
    /\ d1 = launchDate /\ d2 = launchDate
    /\ n1 = 1 /\ n2 = 1
    /\ k1 = 0 /\ k2 = 0

NextClient ==
    \/ Mount
    \/ Refresh
    \/ FetchSettles
    \/ JsonSettles
    \/ handleWordClick
    \/ shuffleWords
    \/ clearAll
    \/ setEditText
    \/ CancelEdit
    \/ handleSaveWords

SpecClient == InitClient /\ [][NextClient]_vars

\* a fetch that has begun settles, and so does the reading of its body
SpecClientFair ==
    /\ SpecClient
    /\ WF_vars(FetchSettles)
    /\ WF_vars(JsonSettles)

(***************************************************************************)
(* calculatePuzzleNumber on pairs of dates                                 *)
(***************************************************************************)

\* the dates considered lie at most MaxSpan days after a first date
MaxSpan == 12

\* first dates: before the launch, the launch, and before the ends of a
\* year, of a leap February and of a common February
StartDates ==
    { <<2023, 6, 5>>, <<2023, 6, 12>>, <<2023, 12, 25>>, <<2024, 2, 22>>, <<2025, 2, 22>> }

\* the calendar day after d
NextDay(d) ==
    IF d[3] < DaysInMonth(d[1], d[2]) THEN <<d[1], d[2], d[3] + 1>>
    ELSE IF d[2] < 12 THEN <<d[1], d[2] + 1, 1>>
    ELSE <<d[1] + 1, 1, 1>>

InitDate ==
    /\ GetIdle
    /\ other = Unset
    /\ ClientInit
    /\ \E d \in StartDates :
          /\ d1 = d /\ d2 = d
          /\ n1 = calculatePuzzleNumber([date |-> d], "date")
          /\ n2 = calculatePuzzleNumber([date |-> d], "date")
    /\ k1 = 0 /\ k2 = 0

\* calculatePuzzleNumber of the day after d2
NumberLaterDay ==
    /\ k2 < MaxSpan
    /\ d2' = NextDay(d2)
    /\ n2' = calculatePuzzleNumber([date |-> NextDay(d2)], "date")
    /\ k2' = k2 + 1
    /\ UNCHANGED <<d1, n1, k1, getVars, other, clientVars>>

\* calculatePuzzleNumber of the day after d1
NumberEarlierDay ==
    /\ k1 < k2
    /\ d1' = NextDay(d1)
    /\ n1' = calculatePuzzleNumber([date |-> NextDay(d1)], "date")
    /\ k1' = k1 + 1
    /\ UNCHANGED <<d2, n2, k2, getVars, other, clientVars>>

NextDate == NumberLaterDay \/ NumberEarlierDay

SpecDate == InitDate /\ [][NextDate]_vars

(***************************************************************************)
(* Properties of a resolution                                              *)
(***************************************************************************)

\* the invocations of one adapter in this resolution
CallsOf(adapter) == {i \in 1..Len(calls) : calls[i].adapter = adapter}

PrimaryYieldedPuzzle ==
    \E i \in CallsOf("nyt") : calls[i].result # Null

PrimaryFailed ==
    \E i \in CallsOf("nyt") : calls[i].result = Null

\* C1: when the primary adapter yields a puzzle, the fallback adapter is not
\* invoked in that resolution, and the response carries the primary's puzzle.
C1_PrimaryPreferred ==
    PrimaryYieldedPuzzle =>
        /\ CallsOf("github") = {}
        /\ ghResp = Unset
        /\ pc # "github"
        /\ pc = "done" =>
              /\ response.status = 200
              /\ \E i \in CallsOf("nyt") : response.body = calls[i].result

C1_Witness ==
    /\ pc = "done"
    /\ PrimaryYieldedPuzzle
    /\ response.status = 200

\* the primary's response is one of the failures the spec lists
PrimaryResponseIsFailure ==
    /\ nytResp # Unset
    /\ \/ nytResp.kind \in {"networkError", "httpError", "invalidJSON"}
       \/ nytResp.kind = "json" /\ ~Has(nytResp.data, "categories")
       \/ nytResp.kind = "json" /\ Has(nytResp.data, "categories")
            /\ \E i \in 1..Len(nytResp.data.categories) :
                  ~Has(nytResp.data.categories[i], "cards")

\* C2: no adapter is invoked twice and the primary comes first, so there are
\* at most two requests; when the primary has failed (for any of the listed
\* reasons), the fallback is invoked exactly once, after it, with the same date.
C2_FallbackOnce ==
    /\ Len(calls) <= 2
    /\ Cardinality(CallsOf("nyt")) <= 1
    /\ Cardinality(CallsOf("github")) <= 1
    /\ Len(calls) >= 1 => calls[1].adapter = "nyt" /\ calls[1].date = today
    /\ PrimaryResponseIsFailure => PrimaryFailed
    /\ (PrimaryFailed /\ pc \in {"respond", "done"}) =>
          /\ Len(calls) = 2
          /\ calls[2].adapter = "github"
          /\ calls[2].date = calls[1].date
          /\ calls[2].date = today
    /\ (PrimaryFailed /\ pc = "github") => Len(calls) = 1

C2_Witness ==
    /\ pc = "done"
    /\ nytResp.kind = "json"
    /\ PrimaryResponseIsFailure
    /\ Len(calls) = 2
    /\ calls[2].adapter = "github"

\* C3 (as claimed): every puzzle a resolution returns has exactly GridSize words.
C3_SixteenWords ==
    (pc = "done" /\ response.status = 200) => Len(response.body.words) = GridSize

\* C4: a resolution always ends in a response, which is either the puzzle an
\* adapter produced or the fixed failure payload; the failure payload is what
\* is returned exactly when both adapters failed, and it holds nothing but the
\* error indicator and the instruction.
C4_PuzzleOrUniformFailure ==
    /\ pc # "done" => ENABLED Next
    /\ pc = "done" =>
          /\ response.status \in {200, 500}
          /\ response.status = 200 =>
                /\ response.body = calls[Len(calls)].result
                /\ response.body # Null
                /\ {"id", "words"} \subseteq DOMAIN response.body
          /\ response.status = 500 =>
                /\ response.body =
                      [error |-> "Failed to fetch today's puzzle",
                       message |-> "Please enter words manually using the Edit button"]
                /\ Len(calls) = 2
                /\ \A i \in 1..Len(calls) : calls[i].result = Null
          /\ (\A i \in 1..Len(calls) : calls[i].result = Null) => response.status = 500

C4_Witness ==
    /\ pc = "done"
    /\ response.status = 500
    /\ nytResp.kind = "json"
    /\ ghResp.kind = "json"
    /\ Len(ghResp.data) > 0

(***************************************************************************)
(* Properties of the primary adapter                                       *)
(***************************************************************************)

\* the primary adapter has parsed a decoded document in this resolution
PrimaryParsed ==
    /\ CallsOf("nyt") # {}
    /\ nytResp.kind = "json"
    /\ Has(nytResp.data, "categories")
    /\ \A i \in 1..Len(nytResp.data.categories) : Has(nytResp.data.categories[i], "cards")

PrimaryResult == calls[1].result

\* the cards of the document, whatever their category
DocumentCards ==
    UNION { {nytResp.data.categories[i].cards[j] :
                j \in 1..Len(nytResp.data.categories[i].cards)} :
            i \in 1..Len(nytResp.data.categories) }

DocumentCardCount ==
    LET count[i \in 0..Len(nytResp.data.categories)] ==
            IF i = 0 THEN 0 ELSE count[i - 1] + Len(nytResp.data.categories[i].cards)
    IN  count[Len(nytResp.data.categories)]

\* GridSize cards, one at each position 0..GridSize-1
ValidDocument ==
    /\ DocumentCardCount = GridSize
    /\ \A p \in 0..(GridSize - 1) : \E c \in DocumentCards : c.position = p

DocumentIsPicture == \E c \in DocumentCards : Truthy(c, "image_url")

\* C5: for a valid primary document, the puzzle has GridSize words and the
\* word at index i is the word of the card whose position is i, whatever the
\* grouping and order of the cards in the document.
C5_WordsInPositionOrder ==
    (PrimaryParsed /\ ValidDocument) =>
        /\ PrimaryResult # Null
        /\ Len(PrimaryResult.words) = GridSize
        /\ \A c \in DocumentCards :
              PrimaryResult.words[c.position + 1] = CardWord(c, DocumentIsPicture)

\* a valid document whose cards are neither in position order nor in one category
C5_Witness ==
    /\ PrimaryParsed /\ ValidDocument
    /\ Len(nytResp.data.categories) > 1
    /\ nytResp.data.categories[1].cards[1].position # 0
    /\ PrimaryResult # Null
    /\ PrimaryResult.words[1] = <<"W", "0", "0">>
    /\ PrimaryResult.words[GridSize] = <<"W", "1", "5">>

\* C6: a puzzle of the primary adapter has an imageMap exactly when some card
\* of the document carries an image reference, and every key of the imageMap
\* is one of the puzzle's words.
C6_ImageMapKeysAreWords ==
    (PrimaryParsed /\ PrimaryResult # Null) =>
        /\ Has(PrimaryResult, "imageMap") <=> DocumentIsPicture
        /\ Has(PrimaryResult, "imageMap") =>
              \A key \in DOMAIN PrimaryResult.imageMap :
                  \E i \in 1..Len(PrimaryResult.words) : PrimaryResult.words[i] = key

\* a picture puzzle whose cards also carry textual content
C6_Witness ==
    /\ PrimaryParsed /\ PrimaryResult # Null
    /\ Has(PrimaryResult, "imageMap")
    /\ Cardinality(DOMAIN PrimaryResult.imageMap) = GridSize
    /\ \E c \in DocumentCards : Truthy(c, "content") /\ Truthy(c, "image_url")

(***************************************************************************)
(* Properties of the fallback adapter                                      *)
(***************************************************************************)

\* the fallback adapter has decoded an archive in this resolution
FallbackDecoded ==
    /\ CallsOf("github") # {}
    /\ ghResp.kind = "json"

FallbackResult == calls[2].result

\* how many of the groups have a level below that of group g
LevelRank(answers, g) ==
    Cardinality({h \in 1..Len(answers) : answers[h].level < answers[g].level})

\* four groups of four non-empty members, at four distinct levels
FourByFour(entry) ==
    /\ Has(entry, "answers")
    /\ Len(entry.answers) = RowsPerGroup
    /\ \A g \in 1..Len(entry.answers) :
          /\ Has(entry.answers[g], "members")
          /\ Len(entry.answers[g].members) = RowsPerGroup
          /\ \A r \in 1..RowsPerGroup : entry.answers[g].members[r] # <<>>
    /\ \A g, h \in 1..Len(entry.answers) :
          entry.answers[g].level = entry.answers[h].level => g = h

\* the entries whose words the fallback's puzzle holds (their tag is the
\* first character of every member)
EntriesOfResult ==
    {e \in 1..Len(ghResp.data) :
        /\ Len(FallbackResult.words) > 0
        /\ FallbackResult.words[1][1] = toUpperCaseChar(EntryChars[e])}

\* C7: for a selected entry of four groups of four (non-empty) members at
\* distinct levels, listed in any order, the word at index 4*r + k is the
\* uppercased member r of the group with the k-th smallest level; for levels
\* 1, 2, 3, 4 this is A1 B1 C1 D1 A2 B2 C2 D2 A3 B3 C3 D3 A4 B4 C4 D4.
C7_Interleaving ==
    (FallbackDecoded /\ Len(ghResp.data) > 0) =>
        LET entry == SelectPuzzle(ghResp.data, today)
        IN  FourByFour(entry) =>
              /\ FallbackResult # Null
              /\ Len(FallbackResult.words) = RowsPerGroup * RowsPerGroup
              /\ \A g \in 1..RowsPerGroup, r \in 0..(RowsPerGroup - 1) :
                    FallbackResult.words[RowsPerGroup * r + LevelRank(entry.answers, g) + 1]
                        = toUpperCase(entry.answers[g].members[r + 1])
              /\ ([g \in 1..RowsPerGroup |-> entry.answers[g].level] = <<1, 2, 3, 4>>
                     /\ entry.id = 1) =>
                    FallbackResult.words =
                        << <<"E", "A", "1">>, <<"E", "B", "1">>, <<"E", "C", "1">>, <<"E", "D", "1">>,
                           <<"E", "A", "2">>, <<"E", "B", "2">>, <<"E", "C", "2">>, <<"E", "D", "2">>,
                           <<"E", "A", "3">>, <<"E", "B", "3">>, <<"E", "C", "3">>, <<"E", "D", "3">>,
                           <<"E", "A", "4">>, <<"E", "B", "4">>, <<"E", "C", "4">>, <<"E", "D", "4">> >>

\* an entry whose groups are listed neither in ascending nor in descending level
C7_Witness ==
    /\ FallbackDecoded /\ Len(ghResp.data) > 0
    /\ FourByFour(SelectPuzzle(ghResp.data, today))
    /\ SelectPuzzle(ghResp.data, today).answers[1].level = 2
    /\ FallbackResult # Null
    /\ FallbackResult.words[1][2] = "C"

\* every entry of the archive has a date that parses, and groups with members
WellFormedArchive ==
    \A e \in 1..Len(ghResp.data) :
        /\ Has(ghResp.data[e], "date") /\ IsDateString(ghResp.data[e].date)
        /\ Has(ghResp.data[e], "answers")
        /\ \A g \in 1..Len(ghResp.data[e].answers) : Has(ghResp.data[e].answers[g], "members")

\* calendar order of two dates
DateLeq(a, b) ==
    \/ a[1] < b[1]
    \/ a[1] = b[1] /\ a[2] < b[2]
    \/ a[1] = b[1] /\ a[2] = b[2] /\ a[3] <= b[3]

\* C8: from a non-empty archive the fallback takes an entry dated `today` when
\* there is one, and otherwise an entry with the latest date of the archive,
\* also when that date is after `today`; from an empty archive it fails.
C8_DateSelection ==
    FallbackDecoded =>
        /\ Len(ghResp.data) = 0 => FallbackResult = Null
        /\ (Len(ghResp.data) > 0 /\ WellFormedArchive) =>
              /\ FallbackResult # Null
              /\ \E e \in EntriesOfResult : ghResp.data[e].date = FallbackResult.date
              /\ (\E e \in 1..Len(ghResp.data) : ghResp.data[e].date = today)
                    => FallbackResult.date = today
              /\ (\A e \in 1..Len(ghResp.data) : ghResp.data[e].date # today)
                    => \A e \in 1..Len(ghResp.data) :
                          DateLeq(ghResp.data[e].date, FallbackResult.date)
              /\ ([e \in 1..Len(ghResp.data) |-> ghResp.data[e].date]
                        = << <<2023, 6, 12>>, <<2023, 6, 20>>, <<2023, 6, 25>> >>
                     /\ today = <<2023, 6, 22>>)
                    => FallbackResult.date = <<2023, 6, 25>>

\* no entry for `today`; the latest entry is after `today` and is not the
\* first or the last of the archive
C8_Witness ==
    /\ FallbackDecoded /\ Len(ghResp.data) > 2 /\ WellFormedArchive
    /\ \A e \in 1..Len(ghResp.data) : ghResp.data[e].date # today
    /\ FallbackResult # Null
    /\ FallbackResult.date = ghResp.data[2].date
    /\ ~DateLeq(FallbackResult.date, today)

(***************************************************************************)
(* Properties of calculatePuzzleNumber                                     *)
(***************************************************************************)

\* C9: the number of 2023-06-12 is 1 and that of 2023-06-13 is 2; the numbers
\* of two dates differ by the number of days between them, so the number is
\* strictly increasing and consecutive days differ by exactly 1.
C9_SequenceNumber ==
    /\ d1 = <<2023, 6, 12>> => n1 = 1
    /\ d2 = <<2023, 6, 12>> => n2 = 1
    /\ d1 = <<2023, 6, 13>> => n1 = 2
    /\ d2 = <<2023, 6, 13>> => n2 = 2
    /\ n2 - n1 = k2 - k1
    /\ k1 < k2 => n1 < n2
    /\ k2 = k1 + 1 => n2 = n1 + 1

\* two dates on either side of a leap day
C9_Witness ==
    /\ d1 = <<2024, 2, 28>>
    /\ d2 = <<2024, 3, 1>>
    /\ n2 = n1 + 2

\* the number of calendar days from a to b (a not after b), month by month
RECURSIVE DaysFromTo(_, _)
DaysFromTo(a, b) ==
    IF a[1] = b[1] /\ a[2] = b[2] THEN b[3] - a[3]
    ELSE (DaysInMonth(a[1], a[2]) - a[3] + 1)
            + DaysFromTo(NextDay(<<a[1], a[2], DaysInMonth(a[1], a[2])>>), b)

\* floor((date - epoch) / 1 day) + 1, counted on the calendar
SequenceNumberOf(date) ==
    IF DateLeq(<<2023, 6, 12>>, date)
    THEN DaysFromTo(<<2023, 6, 12>>, date) + 1
    ELSE 1 - DaysFromTo(date, <<2023, 6, 12>>)

\* the results of the adapters in this resolution that are puzzles with a date
DatedPuzzles ==
    {calls[i].result : i \in {j \in 1..Len(calls) :
        /\ calls[j].result # Null
        /\ Has(calls[j].result, "date")
        /\ IsDateString(calls[j].result.date)}}

\* C10: the id of a puzzle is the sequence number of the puzzle's date, which
\* is the document's print_date or the date of an archive entry, not the
\* requested date.
C10_IdFromOwnDate ==
    /\ \A puzzle \in DatedPuzzles : puzzle.id = SequenceNumberOf(puzzle.date)
    /\ (PrimaryParsed /\ PrimaryResult # Null /\ Has(nytResp.data, "print_date")) =>
          /\ Has(PrimaryResult, "date")
          /\ PrimaryResult.date = nytResp.data.print_date
    /\ (FallbackDecoded /\ FallbackResult # Null /\ Has(FallbackResult, "date")) =>
          \E e \in 1..Len(ghResp.data) :
              Has(ghResp.data[e], "date") /\ ghResp.data[e].date = FallbackResult.date

\* a puzzle of the fallback whose date (2024-01-05, number 208) is not the
\* requested date
C10_Witness ==
    /\ pc = "done"
    /\ today = <<2023, 6, 22>>
    /\ FallbackDecoded /\ FallbackResult # Null
    /\ FallbackResult \in DatedPuzzles
    /\ FallbackResult.date = <<2024, 1, 5>>
    /\ FallbackResult.id = 208
    /\ response.body = FallbackResult

(***************************************************************************)
(* Shape failures, word derivation and the sign of the id                  *)
(***************************************************************************)

\* C13 (as claimed): when the primary's document decodes but resolves to fewer
\* than GridSize words, the primary adapter fails and the fallback adapter is
\* attempted, so that no partial primary result reaches the caller.
C13_ShortDocumentFallsBack ==
    (PrimaryParsed /\ DocumentCardCount < GridSize /\ pc \in {"respond", "done"}) =>
        /\ PrimaryResult = Null
        /\ CallsOf("github") # {}
        /\ pc = "done" => response.body # PrimaryResult

\* the document has n cards, one at each position 0..n-1
DistinctPositions ==
    \A p \in 0..(DocumentCardCount - 1) : \E c \in DocumentCards : c.position = p

\* the card of the document at position p
CardAt(p) == CHOOSE c \in DocumentCards : c.position = p

\* C14: in a picture puzzle (some card of the document has an image reference)
\* a card that has alt text gives its uppercased alt text; otherwise a card
\* gives its uppercased content if it has any, else its uppercased alt text if
\* it has any, else the empty string. The picture decision is the document's,
\* so a card without image but with alt text, in a picture puzzle, gives its
\* alt text.
C14_WordDerivation ==
    (PrimaryParsed /\ PrimaryResult # Null /\ DistinctPositions) =>
        /\ \A c \in DocumentCards :
              LET word == PrimaryResult.words[c.position + 1]
                  alt == Truthy(c, "image_alt_text")
                  text == Truthy(c, "content")
              IN  /\ (DocumentIsPicture /\ alt) => word = toUpperCase(c.image_alt_text)
                  /\ (~(DocumentIsPicture /\ alt) /\ text) => word = toUpperCase(c.content)
                  /\ (~DocumentIsPicture /\ ~text /\ alt) => word = toUpperCase(c.image_alt_text)
                  /\ (~text /\ ~alt) => word = <<>>
        /\ (DocumentCardCount > 2 /\ CardAt(0) = PictureCard(0, 0) /\ CardAt(1) = MixedCard(1)
                /\ CardAt(2) = TextCard(2)) =>
              /\ PrimaryResult.words[1] = <<"P", "0", "0">>
              /\ PrimaryResult.words[2] = <<"A", "0", "1">>
              /\ PrimaryResult.words[3] = <<"W", "0", "2">>
        /\ (DocumentCardCount > 2 /\ CardAt(0) = EmptyUrlCard(0)) =>
              PrimaryResult.words[1] = <<"W", "0", "0">>
        /\ (DocumentCardCount > 2 /\ CardAt(0) = CaptionedCard(0)) =>
              PrimaryResult.words[1] = <<"P", "0", "0">>

\* a picture puzzle with a card that has content and alt text but no image
C14_Witness ==
    /\ PrimaryParsed /\ PrimaryResult # Null /\ DistinctPositions
    /\ DocumentIsPicture
    /\ \E c \in DocumentCards :
          /\ ~Truthy(c, "image_url") /\ Truthy(c, "content") /\ Truthy(c, "image_alt_text")
          /\ PrimaryResult.words[c.position + 1] = toUpperCase(c.image_alt_text)
          /\ PrimaryResult.words[c.position + 1] # toUpperCase(c.content)

\* C15 (as claimed): the id of every puzzle a resolution produces is a
\* positive integer, whatever the date field of the upstream document.
C15_IdPositive ==
    \A i \in 1..Len(calls) :
        calls[i].result # Null => (calls[i].result.id # NaN /\ calls[i].result.id > 0)


(***************************************************************************)
(* Two invocations: repeated and overlapping resolutions                   *)
(***************************************************************************)

\* the records of both invocations, the running one first
Invocations == <<Suspended, other>>

\* invocation b began after invocation a had returned, and a has not begun anew
Consecutive(a, b) ==
    /\ a.pc = "done"
    /\ b.earlier # Unset
    /\ b.earlier = a.response

SameUpstream(a, b) ==
    /\ a.today = b.today
    /\ a.nytResp = b.nytResp
    /\ a.ghResp = b.ghResp

Successful(a) == a.pc = "done" /\ a.response.status = 200

\* C11: two consecutive successful resolutions for the same date that got the
\* same primary response and the same archive return identical puzzles: the
\* same id, date, words in the same order and imageMap.
C11_Idempotent ==
    \A i, j \in {1, 2} :
        LET a == Invocations[i]
            b == Invocations[j]
        IN  (i # j /\ Consecutive(a, b) /\ Successful(a) /\ Successful(b) /\ SameUpstream(a, b)) =>
                b.response.body = a.response.body

\* the second of two consecutive resolutions has returned the sixteen words of
\* the first, both from the archive after the same failed primary response
C11_Witness ==
    /\ Consecutive(other, Suspended)
    /\ Successful(other) /\ Successful(Suspended)
    /\ SameUpstream(other, Suspended)
    /\ Len(calls) = 2
    /\ Len(response.body.words) = GridSize
    /\ response.body = other.response.body

\* what one invocation returns for the date it read and the responses it got
Resolution(t, n, g) ==
    LET primary == fetchFromNYT(t, n)
        fallback == IF g = Unset THEN Null ELSE fetchFromGitHub(t, g)
    IN  IF primary # Null THEN [status |-> 200, body |-> primary]
        ELSE IF fallback # Null THEN [status |-> 200, body |-> fallback]
        ELSE [status |-> 500, body |-> FailurePayload]

\* C12: whatever the interleaving of two invocations, and whatever an earlier
\* invocation returned, an invocation that has passed its first await has
\* called the primary adapter first, and what it returns is determined by the
\* date it read and the responses it received itself.
C12_Independent ==
    \A i \in {1, 2} :
        LET a == Invocations[i]
        IN  /\ a.pc \in {"github", "respond", "done"} =>
                (a.calls # <<>> /\ a.calls[1].adapter = "nyt" /\ a.calls[1].date = a.today)
            /\ a.pc = "done" => a.response = Resolution(a.today, a.nytResp, a.ghResp)

\* an invocation that began after a failed one has returned the primary's
\* puzzle, while the other invocation, begun anew before this one returned,
\* is waiting for the archive
C12_Witness ==
    /\ pc = "done"
    /\ response.status = 200
    /\ Len(calls) = 1
    /\ earlier # Unset
    /\ earlier.status = 500
    /\ other.pc = "github"
    /\ other.earlier = Unset

(***************************************************************************)
(* Properties of ConnectionsHelper                                         *)
(***************************************************************************)

\* how often the word w stands in the array ws
Occurrences(ws, w) == Cardinality({k \in 1..Len(ws) : ws[k] = w})

\* the arrays hold the same words, each as often
IsPermutation(a, b) ==
    /\ Len(a) = Len(b)
    /\ \A k \in 1..Len(b) : Occurrences(a, b[k]) = Occurrences(b, b[k])

\* the fetch returned a 200 body whose words are an array
GotWords == apiResponse # Unset /\ apiResponse.kind = "json" /\ apiResponse.ok
                /\ Has(apiResponse.data, "words")

\* C16: in every reachable state of the component words holds exactly sixteen
\* entries, whatever /api/puzzle answered and whatever text was saved, and a
\* step of shuffleWords leaves in words the same entries, each as often.
C16_SixteenWords ==
    /\ [](Len(words) = GridSize)
    /\ [][shuffles' # shuffles => IsPermutation(words', words)]_vars

\* a body with more than sixteen words was refused, a text with three words
\* was saved and padded, and the shuffle has moved the last placeholder
C16_Witness ==
    /\ fetchPc = "idle"
    /\ GotWords
    /\ Len(apiResponse.data.words) > GridSize
    /\ shuffles > 0
    /\ Len(words) = GridSize
    /\ IsPermutation(words, PadWords(WordsNamed(3, FALSE)))
    /\ words[GridSize] # PlaceholderWord(GridSize)

\* the response makes fetchTodaysPuzzle fail: fetch threw, the status was not
\* OK, the body was no JSON, or its words are missing or not sixteen
FailedResponse(resp) ==
    IF resp.kind = "networkError" THEN TRUE
    ELSE IF ~resp.ok THEN TRUE
    ELSE IF resp.kind = "invalidJSON" THEN TRUE
    ELSE IF ~Has(resp.data, "words") THEN TRUE
    ELSE Len(resp.data.words) # GridSize

FetchReturns == fetchPc # "idle" /\ fetchPc' = "idle"

\* C17: the step in which a failed fetchTodaysPuzzle returns leaves words,
\* wordColors, puzzleDate, puzzleId and editText as they were and sets
\* fetchError to the manual-entry message; the step in which a fetch begins
\* clears fetchError; the step in which any fetch returns sets isLoading to
\* false, and every fetch that has begun returns.
C17_FailedFetch ==
    /\ [][(FetchReturns /\ FailedResponse(apiResponse')) =>
             /\ words' = words
             /\ wordColors' = wordColors
             /\ puzzleDate' = puzzleDate
             /\ puzzleId' = puzzleId
             /\ editText' = editText
             /\ fetchError' = Some(FetchErrorMessage)]_vars
    /\ [][(fetchPc = "idle" /\ fetchPc' # "idle") => (fetchError' = Null /\ isLoading')]_vars
    /\ [][FetchReturns => ~isLoading']_vars
    /\ (isLoading ~> ~isLoading)

\* a fetch has failed on a body with fifteen words after an earlier one had
\* brought a puzzle: the puzzle, a colour given since and a text typed since
\* are still there, next to the message
C17_Witness ==
    /\ fetchPc = "idle"
    /\ ~isLoading
    /\ GotWords
    /\ Len(apiResponse.data.words) = GridSize - 1
    /\ fetchError = Some(FetchErrorMessage)
    /\ puzzleId = Some(9)
    /\ puzzleDate = Some(<<2023, 6, 20>>)
    /\ words = PuzzlePayload(GridSize, TRUE).words
    /\ wordColors # {}
    /\ editText = <<>>

====
